---------------------------- MODULE Spec2Model ----------------------------
(***************************************************************************)
(* FileFlow Bridge (bridge/main.go): the registry of file sessions, the    *)
(* provider-side TCP handshake, the HTTP download handler that splices a   *)
(* provider stream into a response, the per-stream health monitor and the  *)
(* expiry sweeper.  Every region the code runs under ffb.mu is one atomic  *)
(* action; socket reads and writes are actions of their own.               *)
(***************************************************************************)
EXTENDS Integers, Sequences, FiniteSets, TLC

\* ------------------------------------------------------------------ bounds

\* successful registrations in one run
MaxRegs == 2
\* polls of the download handler's wait loop (the code polls 20 times)
PollLimit == 2
\* bytes a provider writes on one connection
PayloadLen == 2
\* local byte count at which the splice folds into the global counter
\* (the code folds at 10 MiB)
FoldThreshold == 2

\* ------------------------------------------------------- program constants

\* ffb.MaxFileSize, in the model's size unit
MaxFileSize == 2

Tokens == {"t1", "t2"}
\* a token no registration ever returns
NoSuchToken == "zz"
\* provider connections and download requests, each used once
Conns == {1, 2}
Reqs == {1, 2}

\* the k-th payload byte written on connection c
Byte(c, k) == 10 * c + k

VARIABLES
    fileRegistry,       \* map token -> FileMetadata (a function on the present tokens)
    activeStreams,      \* map token -> connection
    downloadCompleted,  \* the tokens whose completion flag is true
    serverStats,        \* ServerStats
    muDead,             \* ffb.mu is held by a goroutine that will never release it
    conn,               \* per provider connection: handler position, socket, stream
    mon,                \* per provider connection: its health monitor
    req,                \* per download request: handler position and response
    sweepList,          \* expiredFiles of the sweep in progress
    regReq,             \* the last register request
    regResp,            \* the response to it
    statusResp,         \* the response to the last status request
    minter,             \* the configured token length and the token being minted
    shut                \* the position of StartServer's shutdown sequence

vars == <<fileRegistry, activeStreams, downloadCompleted, serverStats, muDead,
          conn, mon, req, sweepList, regReq, regResp, statusResp, minter, shut>>

\* ----------------------------------------------------------------- helpers

EmptyMap == [x \in {} |-> 0]
Del(f, k) == [x \in (DOMAIN f) \ {k} |-> f[x]]
Put(f, k, v) == [x \in (DOMAIN f) \cup {k} |-> IF x = k THEN v ELSE f[x]]

Bytes(c, from, to) == [k \in 1..(to - from) |-> Byte(c, from + k)]

\* what the provider has written after its handshake line
Written(c) == Bytes(c, 0, conn[c].sent)

NoConn == 0

Init ==
    /\ fileRegistry = EmptyMap
    /\ activeStreams = EmptyMap
    /\ downloadCompleted = {}
    /\ serverStats = [FilesRegistered |-> 0, FilesTransferred |-> 0,
                      BytesTransferred |-> 0, ActiveConnections |-> 0,
                      PeakConnections |-> 0]
    /\ muDead = FALSE
    /\ conn = [c \in Conns |->
                 [pc |-> "free", tok |-> "", reply |-> "none", closed |-> FALSE,
                  handover |-> FALSE, peer |-> "open", sent |-> 0, pulled |-> 0,
                  rd |-> 0]]
    /\ mon = [c \in Conns |-> "off"]
    /\ req = [d \in Reqs |->
                [pc |-> "idle", tok |-> "", size |-> 0, first |-> FALSE, i |-> 0,
                 stream |-> NoConn, code |-> 0, body |-> <<>>, local |-> 0,
                 how |-> "none"]]
    /\ sweepList = {}
    /\ regReq = [kind |-> "none", Filename |-> "", Size |-> 0]
    /\ regResp = [code |-> 0, token |-> ""]
    /\ statusResp = [code |-> 0, token |-> ""]
    /\ minter = [pc |-> "off", cfg |-> 0, viaMain |-> FALSE, TokenLength |-> 0,
                 ret |-> <<>>]
    /\ shut = "running"

\* ------------------------------------------------------------ registration

\* NewMetadata that stores no size
NewMetadataNoSize(fn, sz, tok) ==
    [Filename |-> fn, OriginalFilename |-> fn, Size |-> 0, Status |-> "registered",
     AuthToken |-> tok, Expired |-> FALSE]

NewMetadata(fn, sz, tok) ==
    [Filename |-> fn, OriginalFilename |-> fn, Size |-> sz, Status |-> "registered",
     AuthToken |-> tok, Expired |-> FALSE]

\* handleFileRegistration without the size check
handleFileRegistrationAnySize(kind, fn, sz, minted) ==
    /\ regReq' = [kind |-> kind, Filename |-> fn, Size |-> sz]
    /\ IF kind # "json" \/ fn = ""
       THEN /\ regResp' = [code |-> 400, token |-> ""]
            /\ UNCHANGED <<fileRegistry, serverStats>>
       ELSE /\ ~muDead
            /\ fileRegistry' = Put(fileRegistry, minted, NewMetadata(fn, sz, minted))
            /\ regResp' = [code |-> 200, token |-> minted]
            /\ serverStats' = [serverStats EXCEPT !.FilesRegistered = @ + 1]
    /\ UNCHANGED <<activeStreams, downloadCompleted, muDead, conn, mon, req, sweepList,
                   statusResp, minter, shut>>

\* POST /register.  kind: "nil" (no body), "bad" (not JSON), "json"; minted is
\* what createNewID returns: a random string, which nothing compares with the
\* tokens already in the registry
handleFileRegistration(kind, fn, sz, minted) ==
    /\ regReq' = [kind |-> kind, Filename |-> fn, Size |-> sz]
    /\ IF kind # "json" \/ fn = ""
       THEN /\ regResp' = [code |-> 400, token |-> ""]
            /\ UNCHANGED <<fileRegistry, serverStats>>
       ELSE IF sz > MaxFileSize
       THEN /\ regResp' = [code |-> 413, token |-> ""]
            /\ UNCHANGED <<fileRegistry, serverStats>>
       ELSE /\ ~muDead
            /\ LET authToken == minted IN
                 /\ fileRegistry' = Put(fileRegistry, authToken,
                                        NewMetadata(fn, sz, authToken))
                 /\ regResp' = [code |-> 200, token |-> authToken]
            /\ serverStats' = [serverStats EXCEPT !.FilesRegistered = @ + 1]
    /\ UNCHANGED <<activeStreams, downloadCompleted, muDead, conn, mon, req, sweepList,
                   statusResp, minter, shut>>

\* handleStatusCheck without the test of exists: the nil session is
\* dereferenced and net/http answers the recovered panic
handleStatusCheckNoExists(authToken) ==
    /\ ~muDead
    /\ statusResp' =
         IF authToken \notin DOMAIN fileRegistry
         THEN [code |-> 500, token |-> authToken]
         ELSE [code |-> 200, token |-> authToken,
               filename |-> fileRegistry[authToken].Filename,
               size |-> fileRegistry[authToken].Size,
               status |-> fileRegistry[authToken].Status,
               download_completed |-> authToken \in downloadCompleted]
    /\ UNCHANGED <<fileRegistry, activeStreams, downloadCompleted, serverStats, muDead,
                   conn, mon, req, sweepList, regReq, regResp, minter, shut>>

\* GET /status/{token}: 404 on a token that is not in the registry, else the
\* session's fields and its completion flag
handleStatusCheck(authToken) ==
    /\ ~muDead
    /\ statusResp' =
         IF authToken \notin DOMAIN fileRegistry
         THEN [code |-> 404, token |-> authToken]
         ELSE [code |-> 200, token |-> authToken,
               filename |-> fileRegistry[authToken].Filename,
               size |-> fileRegistry[authToken].Size,
               status |-> fileRegistry[authToken].Status,
               download_completed |-> authToken \in downloadCompleted]
    /\ UNCHANGED <<fileRegistry, activeStreams, downloadCompleted, serverStats, muDead,
                   conn, mon, req, sweepList, regReq, regResp, minter, shut>>

\* the passing of time past a session's ExpiresAt
Expire(t) ==
    /\ t \in DOMAIN fileRegistry
    /\ ~fileRegistry[t].Expired
    /\ fileRegistry' = [fileRegistry EXCEPT ![t].Expired = TRUE]
    /\ UNCHANGED <<activeStreams, downloadCompleted, serverStats, muDead, conn, mon,
                   req, sweepList, regReq, regResp, statusResp, minter, shut>>

\* ---------------------------------------------------------------- createNewID

\* the bounds createNewID puts on ffb.TokenLength, and the length main
\* restores when the configured one is outside them
MinTokenLength == 6
MaxTokenLength == 32
DefaultTokenLength == 8

\* const charset
charset ==
    << "a", "b", "c", "d", "e", "f", "g", "h", "i", "j", "k", "l", "m",
       "n", "o", "p", "q", "r", "s", "t", "u", "v", "w", "x", "y", "z",
       "A", "B", "C", "D", "E", "F", "G", "H", "I", "J", "K", "L", "M",
       "N", "O", "P", "Q", "R", "S", "T", "U", "V", "W", "X", "Y", "Z",
       "0", "1", "2", "3", "4", "5", "6", "7", "8", "9" >>

HexDigits ==
    << "0", "1", "2", "3", "4", "5", "6", "7", "8", "9", "a", "b", "c", "d", "e", "f" >>

\* uuid.New().String(): a version 4 UUID in the canonical form
\* xxxxxxxx-xxxx-4xxx-Nxxx-xxxxxxxxxxxx; h is the random hex digit (the same
\* at every random position), v the variant digit N
UUIDString(h, v) ==
    [k \in 1..36 |->
        IF k \in {9, 14, 19, 24} THEN "-"
        ELSE IF k = 15 THEN "4"
        ELSE IF k = 20 THEN v
        ELSE HexDigits[h]]

\* the token lengths given on the command line or to the constructor
ConfiguredLengths == (0 - 1)..(MaxTokenLength + 2)

\* main without the restoring of the default length
mainKeepLength(tokenLength) ==
    /\ minter.pc = "off"
    /\ minter' = [pc |-> "built", cfg |-> tokenLength, viaMain |-> TRUE,
                  TokenLength |-> tokenLength, ret |-> <<>>]
    /\ UNCHANGED <<fileRegistry, activeStreams, downloadCompleted, serverStats, muDead,
                   conn, mon, req, sweepList, regReq, regResp, statusResp, shut>>

\* main: a token length outside 6..32 is replaced by 8 before the bridge is
\* constructed
main(tokenLength) ==
    /\ minter.pc = "off"
    /\ LET finalTokenLen ==
               IF tokenLength < MinTokenLength \/ tokenLength > MaxTokenLength
               THEN DefaultTokenLength ELSE tokenLength
       IN minter' = [pc |-> "built", cfg |-> tokenLength, viaMain |-> TRUE,
                     TokenLength |-> finalTokenLen, ret |-> <<>>]
    /\ UNCHANGED <<fileRegistry, activeStreams, downloadCompleted, serverStats, muDead,
                   conn, mon, req, sweepList, regReq, regResp, statusResp, shut>>

\* NewFileFlowBridge called directly (as the tests do): the length is stored
\* as given
NewFileFlowBridge(tokenLength) ==
    /\ minter.pc = "off"
    /\ minter' = [pc |-> "built", cfg |-> tokenLength, viaMain |-> FALSE,
                  TokenLength |-> tokenLength, ret |-> <<>>]
    /\ UNCHANGED <<fileRegistry, activeStreams, downloadCompleted, serverStats, muDead,
                   conn, mon, req, sweepList, regReq, regResp, statusResp, shut>>

\* createNewID on a length outside 6..32: the UUID
createNewIDUUID(h, v) ==
    /\ minter.pc \in {"built", "returned"}
    /\ minter.TokenLength < MinTokenLength \/ minter.TokenLength > MaxTokenLength
    /\ minter' = [minter EXCEPT !.pc = "returned", !.ret = UUIDString(h, v)]
    /\ UNCHANGED <<fileRegistry, activeStreams, downloadCompleted, serverStats, muDead,
                   conn, mon, req, sweepList, regReq, regResp, statusResp, shut>>

\* createNewID on a length of 6..32: ret := make([]byte, TokenLength), here
\* grown one character at a time
createNewIDStart ==
    /\ minter.pc \in {"built", "returned"}
    /\ ~(minter.TokenLength < MinTokenLength \/ minter.TokenLength > MaxTokenLength)
    /\ minter' = [minter EXCEPT !.pc = "loop", !.ret = <<>>]
    /\ UNCHANGED <<fileRegistry, activeStreams, downloadCompleted, serverStats, muDead,
                   conn, mon, req, sweepList, regReq, regResp, statusResp, shut>>

\* one turn of the loop, i = Len(ret) < TokenLength: ret[i] = charset[num]
\* for the random num of 0..61
createNewIDChar(num) ==
    /\ minter.pc = "loop"
    /\ Len(minter.ret) < minter.TokenLength
    /\ minter' = [minter EXCEPT !.ret = Append(@, charset[num + 1])]
    /\ UNCHANGED <<fileRegistry, activeStreams, downloadCompleted, serverStats, muDead,
                   conn, mon, req, sweepList, regReq, regResp, statusResp, shut>>

\* the loop is over: return string(ret)
createNewIDReturn ==
    /\ minter.pc = "loop"
    /\ ~(Len(minter.ret) < minter.TokenLength)
    /\ minter' = [minter EXCEPT !.pc = "returned"]
    /\ UNCHANGED <<fileRegistry, activeStreams, downloadCompleted, serverStats, muDead,
                   conn, mon, req, sweepList, regReq, regResp, statusResp, shut>>

\* ------------------------------------------------------- removeFileResources

ClosedConns(closing) ==
    [c \in Conns |-> IF c \in closing THEN [conn[c] EXCEPT !.closed = TRUE] ELSE conn[c]]

StreamOf(t) == IF t \in DOMAIN activeStreams THEN {activeStreams[t]} ELSE {}

\* removeFileResources that leaves the completion flag behind
removeFileResourcesKeepFlag(authToken) ==
    /\ fileRegistry' = Del(fileRegistry, authToken)
    /\ conn' = ClosedConns(StreamOf(authToken))
    /\ activeStreams' = Del(activeStreams, authToken)
    /\ downloadCompleted' = downloadCompleted

\* under the write lock: drop the session, close and drop its stream, drop its flag
removeFileResources(authToken) ==
    /\ fileRegistry' = Del(fileRegistry, authToken)
    /\ conn' = ClosedConns(StreamOf(authToken))
    /\ activeStreams' = Del(activeStreams, authToken)
    /\ downloadCompleted' = downloadCompleted \ {authToken}

\* ------------------------------------------------------- provider (external)

Connected(c) == conn[c].pc # "free"

ProviderWrite(c) ==
    /\ Connected(c) /\ conn[c].peer = "open" /\ ~conn[c].closed
    /\ conn[c].sent < PayloadLen
    /\ conn' = [conn EXCEPT ![c].sent = @ + 1]
    /\ UNCHANGED <<fileRegistry, activeStreams, downloadCompleted, serverStats, muDead,
                   mon, req, sweepList, regReq, regResp, statusResp, minter, shut>>

\* how: "fin" (the provider closes its side), "rst" (the connection is reset)
ProviderClose(c, how) ==
    /\ Connected(c) /\ conn[c].peer = "open" /\ ~conn[c].closed
    /\ conn' = [conn EXCEPT ![c].peer = how]
    /\ UNCHANGED <<fileRegistry, activeStreams, downloadCompleted, serverStats, muDead,
                   mon, req, sweepList, regReq, regResp, statusResp, minter, shut>>

\* ------------------------------------------------------ handleStreamConnection

\* AcceptConnection that leaves the peak alone
AcceptConnectionNoPeak(c) ==
    /\ conn[c].pc = "free"
    /\ ~muDead
    /\ serverStats' = [serverStats EXCEPT !.ActiveConnections = @ + 1]
    /\ conn' = [conn EXCEPT ![c].pc = "read"]
    /\ UNCHANGED <<fileRegistry, activeStreams, downloadCompleted, muDead, mon, req,
                   sweepList, regReq, regResp, statusResp, minter, shut>>

\* accept, then the first locked region: ActiveConnections++ and the peak
AcceptConnection(c) ==
    /\ conn[c].pc = "free"
    /\ ~muDead
    /\ LET a == serverStats.ActiveConnections + 1 IN
       serverStats' = [serverStats EXCEPT
                         !.ActiveConnections = a,
                         !.PeakConnections = IF a > @ THEN a ELSE @]
    /\ conn' = [conn EXCEPT ![c].pc = "read"]
    /\ UNCHANGED <<fileRegistry, activeStreams, downloadCompleted, muDead, mon, req,
                   sweepList, regReq, regResp, statusResp, minter, shut>>

\* reader.ReadString and json.Unmarshal.  line is what the provider's first
\* line turns out to be: "err" (a read error or the 15 s deadline before any
\* newline), "bad" (a line that is no JSON object of strings) or the
\* auth_token it carries; on a line, bufio has pulled in whatever payload had
\* arrived behind it
ReadMetadata(c, line) ==
    /\ conn[c].pc = "read"
    /\ conn[c].peer = "rst" => line = "err"
    /\ IF line \in {"err", "bad"}
       THEN conn' = [conn EXCEPT ![c].pc = "ret",
                                 ![c].pulled = IF line = "bad" THEN conn[c].sent ELSE 0]
       ELSE conn' = [conn EXCEPT ![c].pc = "validate", ![c].tok = line,
                                 ![c].pulled = conn[c].sent]
    /\ UNCHANGED <<fileRegistry, activeStreams, downloadCompleted, serverStats, muDead,
                   mon, req, sweepList, regReq, regResp, statusResp, minter, shut>>

\* validateStreamConnection without the test of ExpiresAt
validateStreamConnectionNoExpiry(authToken) ==
    /\ authToken \in DOMAIN fileRegistry
    /\ fileRegistry[authToken].AuthToken = authToken
    /\ fileRegistry[authToken].Status = "registered"
    /\ authToken \notin downloadCompleted

validateStreamConnection(authToken) ==
    /\ authToken \in DOMAIN fileRegistry
    /\ fileRegistry[authToken].AuthToken = authToken
    /\ fileRegistry[authToken].Status = "registered"
    /\ ~fileRegistry[authToken].Expired
    /\ authToken \notin downloadCompleted

\* under the read lock; an invalid token is answered INVALID_CONNECTION and closed
ValidateConnection(c) ==
    /\ conn[c].pc = "validate"
    /\ ~muDead
    /\ IF validateStreamConnection(conn[c].tok)
       THEN conn' = [conn EXCEPT ![c].pc = "setstatus"]
       ELSE conn' = [conn EXCEPT ![c].pc = "ret", ![c].closed = TRUE,
                                 ![c].reply = "INVALID_CONNECTION"]
    /\ UNCHANGED <<fileRegistry, activeStreams, downloadCompleted, serverStats, muDead,
                   mon, req, sweepList, regReq, regResp, statusResp, minter, shut>>

\* second locked region: fileRegistry[authToken].Status = "streaming".  On a
\* token that has left the registry the map yields nil and the store panics
\* with the lock held; the deferred ActiveConnections-- then locks ffb.mu
\* again and the goroutine blocks for ever, still holding it
SetStreaming(c) ==
    /\ conn[c].pc = "setstatus"
    /\ ~muDead
    /\ IF conn[c].tok \in DOMAIN fileRegistry
       THEN /\ fileRegistry' = [fileRegistry EXCEPT ![conn[c].tok].Status = "streaming"]
            /\ conn' = [conn EXCEPT ![c].pc = "install"]
            /\ UNCHANGED muDead
       ELSE /\ muDead' = TRUE
            /\ conn' = [conn EXCEPT ![c].pc = "hung"]
            /\ UNCHANGED fileRegistry
    /\ UNCHANGED <<activeStreams, downloadCompleted, serverStats, mon, req, sweepList,
                   regReq, regResp, statusResp, minter, shut>>

\* StreamConnection{Reader: reader}: the stream reads through the bufio
\* reader of the handshake, so it starts at the first payload byte
NewStreamReaderPos(c) == 0

\* third locked region: activeStreams[authToken] = streamConn
InstallStream(c) ==
    /\ conn[c].pc = "install"
    /\ ~muDead
    /\ activeStreams' = Put(activeStreams, conn[c].tok, c)
    /\ conn' = [conn EXCEPT ![c].pc = "ready", ![c].rd = NewStreamReaderPos(c)]
    /\ UNCHANGED <<fileRegistry, downloadCompleted, serverStats, muDead, mon, req,
                   sweepList, regReq, regResp, statusResp, minter, shut>>

\* conn.Write("STREAM_READY\n"); isHandover = true; go monitorConnectionHealth;
\* then the deferred ActiveConnections-- under the lock (nothing is closed:
\* the connection was handed over)
WriteReady(c) ==
    /\ conn[c].pc = "ready"
    /\ conn' = [conn EXCEPT ![c].pc = IF muDead THEN "hung" ELSE "end",
                            ![c].handover = TRUE,
                            ![c].reply = IF conn[c].closed THEN @ ELSE "STREAM_READY"]
    /\ mon' = [mon EXCEPT ![c] = "wait"]
    /\ serverStats' = [serverStats EXCEPT
                         !.ActiveConnections = IF muDead THEN @ ELSE @ - 1]
    /\ UNCHANGED <<fileRegistry, activeStreams, downloadCompleted, muDead, req,
                   sweepList, regReq, regResp, statusResp, minter, shut>>

\* a failed handshake returns: the deferred ActiveConnections-- under the
\* lock, then the deferred conn.Close() (isHandover is false)
ReturnConnection(c) ==
    /\ conn[c].pc = "ret"
    /\ ~muDead
    /\ serverStats' = [serverStats EXCEPT !.ActiveConnections = @ - 1]
    /\ conn' = [conn EXCEPT ![c].pc = "end", ![c].closed = TRUE]
    /\ UNCHANGED <<fileRegistry, activeStreams, downloadCompleted, muDead, mon, req,
                   sweepList, regReq, regResp, statusResp, minter, shut>>

\* ------------------------------------------------------- handleDownloadRequest

\* the request arrives before any provider has attached to the token (an
\* observation of the model, not a variable of the code)
ConsumerFirst(authToken) ==
    /\ fileRegistry[authToken].Status = "registered"
    /\ authToken \notin DOMAIN activeStreams
    /\ \A c \in Conns : ~(conn[c].handover /\ conn[c].tok = authToken)

\* the lookup under the read lock, the 404, the deferred removeFileResources
\* and the status check
StartDownload(d, authToken) ==
    /\ req[d].pc = "idle"
    /\ ~muDead
    /\ LET exists == authToken \in DOMAIN fileRegistry
           completed == authToken \in downloadCompleted
       IN IF ~exists \/ completed
          THEN req' = [req EXCEPT ![d].pc = "done", ![d].tok = authToken,
                                  ![d].code = 404]
          ELSE IF fileRegistry[authToken].Status \notin {"streaming", "registered"}
          THEN req' = [req EXCEPT ![d].pc = "ret", ![d].tok = authToken,
                                  ![d].code = 503]
          ELSE req' = [req EXCEPT ![d].pc = "poll", ![d].tok = authToken,
                                  ![d].size = fileRegistry[authToken].Size,
                                  ![d].first = ConsumerFirst(authToken)]
    /\ UNCHANGED <<fileRegistry, activeStreams, downloadCompleted, serverStats, muDead,
                   conn, mon, sweepList, regReq, regResp, statusResp, minter, shut>>

\* PollStream looking for the stream on the first turn only
PollStreamOnce(d) ==
    /\ req[d].pc = "poll"
    /\ ~muDead
    /\ IF req[d].i = 0 /\ req[d].tok \in DOMAIN activeStreams
       THEN req' = [req EXCEPT ![d].pc = "splice", ![d].code = 200, ![d].i = 0,
                               ![d].stream = activeStreams[req[d].tok]]
       ELSE IF req[d].i + 1 < PollLimit
       THEN req' = [req EXCEPT ![d].i = @ + 1]
       ELSE req' = [req EXCEPT ![d].i = 0, ![d].pc = "ret", ![d].code = 503,
                               ![d].first = FALSE, ![d].size = 0]
    /\ UNCHANGED <<fileRegistry, activeStreams, downloadCompleted, serverStats, muDead,
                   conn, mon, sweepList, regReq, regResp, statusResp, minter, shut>>

\* PollStream whose 503 returns without the deferred removeFileResources
PollStreamNoEvict(d) ==
    /\ req[d].pc = "poll"
    /\ ~muDead
    /\ IF req[d].tok \in DOMAIN activeStreams
       THEN req' = [req EXCEPT ![d].pc = "splice", ![d].code = 200, ![d].i = 0,
                               ![d].stream = activeStreams[req[d].tok]]
       ELSE IF req[d].i + 1 < PollLimit
       THEN req' = [req EXCEPT ![d].i = @ + 1]
       ELSE req' = [req EXCEPT ![d].i = 0, ![d].pc = "done", ![d].code = 503,
                               ![d].first = FALSE, ![d].size = 0]
    /\ UNCHANGED <<fileRegistry, activeStreams, downloadCompleted, serverStats, muDead,
                   conn, mon, sweepList, regReq, regResp, statusResp, minter, shut>>

\* one turn of the wait loop: look the stream up under the read lock; found,
\* the response headers are prepared (status 200); not found, sleep, and
\* after the last turn answer 503
PollStream(d) ==
    /\ req[d].pc = "poll"
    /\ ~muDead
    /\ IF req[d].tok \in DOMAIN activeStreams
       THEN req' = [req EXCEPT ![d].pc = "splice", ![d].code = 200, ![d].i = 0,
                               ![d].stream = activeStreams[req[d].tok]]
       ELSE IF req[d].i + 1 < PollLimit
       THEN req' = [req EXCEPT ![d].i = @ + 1]
       ELSE req' = [req EXCEPT ![d].i = 0, ![d].pc = "ret", ![d].code = 503,
                               ![d].first = FALSE, ![d].size = 0]
    /\ UNCHANGED <<fileRegistry, activeStreams, downloadCompleted, serverStats, muDead,
                   conn, mon, sweepList, regReq, regResp, statusResp, minter, shut>>

\* what streamConn.Reader.Read finds: bytes still in the bufio buffer come
\* first, whatever the socket's state; then the socket.  rd < 0: the reader's
\* indexes have been corrupted (see SpliceRace) and the read panics
ReadOutcome(c) ==
    IF conn[c].rd < 0 THEN "panic"
    ELSE IF conn[c].rd < conn[c].pulled THEN "buffered"
    ELSE IF conn[c].closed THEN "error"
    ELSE IF conn[c].rd < conn[c].sent THEN "data"
    ELSE IF conn[c].peer = "fin" THEN "eof"
    ELSE IF conn[c].peer = "rst" THEN "error"
    ELSE "timeout"

\* the position the read reaches
ReadUpTo(c) ==
    IF conn[c].rd < conn[c].pulled THEN conn[c].pulled ELSE conn[c].sent

Splicing(d, c) == req[d].pc = "splice" /\ req[d].stream = c

\* the response carries Content-Length: metadata.Size when that is positive,
\* and net/http then refuses a write that would exceed it
FitsContentLength(d, n) ==
    req[d].size <= 0 \/ Len(req[d].body) + n <= req[d].size

\* Read returned n > 0 bytes: w.Write, which fails when the consumer has gone
\* (written = FALSE) or the declared length is exceeded, and the fold into
\* bytes_transferred once the local count reaches the threshold
SpliceData(d, written) ==
    LET c == req[d].stream
        chunk == Bytes(c, conn[c].rd, ReadUpTo(c))
        sum == req[d].local + Len(chunk)
        fold == sum >= FoldThreshold
    IN
    /\ req[d].pc = "splice"
    /\ ReadOutcome(c) \in {"buffered", "data"}
    /\ conn' = [conn EXCEPT ![c].rd = ReadUpTo(c)]
    /\ IF ~written \/ ~FitsContentLength(d, Len(chunk))
       THEN /\ req' = [req EXCEPT ![d].pc = "finish", ![d].how = "writeerr"]
            /\ UNCHANGED serverStats
       ELSE IF fold /\ muDead
       THEN /\ req' = [req EXCEPT ![d].pc = "hung", ![d].body = @ \o chunk,
                                  ![d].local = sum]
            /\ UNCHANGED serverStats
       ELSE /\ req' = [req EXCEPT ![d].body = @ \o chunk,
                                  ![d].local = IF fold THEN 0 ELSE sum]
            /\ serverStats' = [serverStats EXCEPT
                                 !.BytesTransferred = IF fold THEN @ + sum ELSE @]
    /\ UNCHANGED <<fileRegistry, activeStreams, downloadCompleted, muDead, mon,
                   sweepList, regReq, regResp, statusResp, minter, shut>>

\* bufio.Reader is not safe for concurrent use.  Two handlers in the splice
\* loop on one reader can both copy the buffered bytes before either advances
\* the read index: both get the same bytes, and the index ends either
\* advanced once (corrupt = FALSE) or twice, past the write index
\* (corrupt = TRUE), after which the next Read panics
SpliceRace(d, e, corrupt) ==
    LET c == req[d].stream
        chunk == Bytes(c, conn[c].rd, ReadUpTo(c))
    IN
    /\ d # e
    /\ Splicing(d, c) /\ Splicing(e, c)
    /\ ReadOutcome(c) = "buffered"
    /\ req[d].local + Len(chunk) < FoldThreshold
    /\ req[e].local + Len(chunk) < FoldThreshold
    /\ FitsContentLength(d, Len(chunk)) /\ FitsContentLength(e, Len(chunk))
    /\ conn' = [conn EXCEPT ![c].rd = IF corrupt THEN -1 ELSE ReadUpTo(c)]
    /\ req' = [req EXCEPT ![d].body = @ \o chunk, ![d].local = @ + Len(chunk),
                          ![e].body = @ \o chunk, ![e].local = @ + Len(chunk)]
    /\ UNCHANGED <<fileRegistry, activeStreams, downloadCompleted, serverStats, muDead,
                   mon, sweepList, regReq, regResp, statusResp, minter, shut>>

\* Read panics on the corrupted reader; net/http recovers the panic and the
\* deferred removeFileResources runs
SplicePanic(d) ==
    /\ req[d].pc = "splice"
    /\ ReadOutcome(req[d].stream) = "panic"
    /\ req' = [req EXCEPT ![d].pc = "ret", ![d].how = "panic", ![d].local = 0,
                          ![d].first = FALSE, ![d].size = 0]
    /\ UNCHANGED <<fileRegistry, activeStreams, downloadCompleted, serverStats, muDead,
                   conn, mon, sweepList, regReq, regResp, statusResp, minter, shut>>

\* Read returned io.EOF
SpliceEOF(d) ==
    /\ req[d].pc = "splice"
    /\ ReadOutcome(req[d].stream) = "eof"
    /\ req' = [req EXCEPT ![d].pc = "finish", ![d].how = "eof"]
    /\ UNCHANGED <<fileRegistry, activeStreams, downloadCompleted, serverStats, muDead,
                   conn, mon, sweepList, regReq, regResp, statusResp, minter, shut>>

\* SpliceTimeout that treats the timeout as any other read error
SpliceTimeoutFatal(d) ==
    /\ req[d].pc = "splice"
    /\ ReadOutcome(req[d].stream) = "timeout"
    /\ ~muDead
    /\ activeStreams' = Del(activeStreams, req[d].tok)
    /\ req' = [req EXCEPT ![d].pc = "finish", ![d].how = "readerr"]
    /\ UNCHANGED <<fileRegistry, downloadCompleted, serverStats, muDead, conn, mon,
                   sweepList, regReq, regResp, statusResp, minter, shut>>

\* the 5 minute read deadline passed: re-arm it and read again
SpliceTimeout(d) ==
    /\ req[d].pc = "splice"
    /\ ReadOutcome(req[d].stream) = "timeout"
    /\ UNCHANGED vars

\* under the write lock: drop the token's entry of activeStreams, whichever
\* connection it holds, without closing anything
handleStreamError(authToken) ==
    activeStreams' = Del(activeStreams, authToken)

\* Read returned another error
SpliceError(d) ==
    /\ req[d].pc = "splice"
    /\ ReadOutcome(req[d].stream) = "error"
    /\ ~muDead
    /\ handleStreamError(req[d].tok)
    /\ req' = [req EXCEPT ![d].pc = "finish", ![d].how = "readerr"]
    /\ UNCHANGED <<fileRegistry, downloadCompleted, serverStats, muDead, conn, mon,
                   sweepList, regReq, regResp, statusResp, minter, shut>>

\* MarkCompleted that stores the residual count instead of adding it
MarkCompletedAssign(d) ==
    /\ req[d].pc = "finish"
    /\ ~muDead
    /\ serverStats' = [serverStats EXCEPT
                         !.FilesTransferred = @ + 1,
                         !.BytesTransferred = req[d].local]
    /\ downloadCompleted' = downloadCompleted \cup {req[d].tok}
    /\ req' = [req EXCEPT ![d].pc = "close", ![d].local = 0, ![d].first = FALSE,
                          ![d].size = 0]
    /\ UNCHANGED <<fileRegistry, activeStreams, muDead, conn, mon, sweepList, regReq,
                   regResp, statusResp, minter, shut>>

\* after the loop, under the write lock: the counters and the completion flag
MarkCompleted(d) ==
    /\ req[d].pc = "finish"
    /\ ~muDead
    /\ serverStats' = [serverStats EXCEPT
                         !.FilesTransferred = @ + 1,
                         !.BytesTransferred = @ + req[d].local]
    /\ downloadCompleted' = downloadCompleted \cup {req[d].tok}
    /\ req' = [req EXCEPT ![d].pc = "close", ![d].local = 0, ![d].first = FALSE,
                          ![d].size = 0]
    /\ UNCHANGED <<fileRegistry, activeStreams, muDead, conn, mon, sweepList, regReq,
                   regResp, statusResp, minter, shut>>

\* after the unlock, with no lock held: close and drop the token's stream
CloseAfterTransfer(d) ==
    /\ req[d].pc = "close"
    /\ conn' = ClosedConns(StreamOf(req[d].tok))
    /\ activeStreams' = Del(activeStreams, req[d].tok)
    /\ req' = [req EXCEPT ![d].pc = "ret"]
    /\ UNCHANGED <<fileRegistry, downloadCompleted, serverStats, muDead, mon, sweepList,
                   regReq, regResp, statusResp, minter, shut>>

\* ReturnDownload without the deferred removeFileResources
ReturnDownloadNoEvict(d) ==
    /\ req[d].pc = "ret"
    /\ ~muDead
    /\ req' = [req EXCEPT ![d].pc = "done"]
    /\ UNCHANGED <<fileRegistry, activeStreams, downloadCompleted, conn, serverStats,
                   muDead, mon, sweepList, regReq, regResp, statusResp, minter, shut>>

\* the deferred removeFileResources
ReturnDownload(d) ==
    /\ req[d].pc = "ret"
    /\ ~muDead
    /\ removeFileResources(req[d].tok)
    /\ req' = [req EXCEPT ![d].pc = "done"]
    /\ UNCHANGED <<serverStats, muDead, mon, sweepList, regReq, regResp, statusResp, minter, shut>>

\* ------------------------------------------------------ monitorConnectionHealth

\* the probe: a peer that has closed or reset is dead; on a socket the bridge
\* has closed itself rawConn.Control fails and nothing is detected
ProbeBroken(c) == ~conn[c].closed /\ conn[c].peer # "open"

\* MonitorTick that stops on a dead peer without evicting
MonitorTickNoEvict(c) ==
    /\ mon[c] = "wait"
    /\ ~muDead
    /\ LET isCompleted == conn[c].tok \in downloadCompleted
           isActive == conn[c].tok \in DOMAIN activeStreams
       IN mon' = [mon EXCEPT ![c] = IF isCompleted \/ ~isActive THEN "stopped"
                                    ELSE IF ProbeBroken(c) THEN "stopped"
                                    ELSE "wait"]
    /\ UNCHANGED <<fileRegistry, activeStreams, downloadCompleted, serverStats, muDead,
                   conn, req, sweepList, regReq, regResp, statusResp, minter, shut>>

\* one tick: the flags under the read lock, then the probe
MonitorTick(c) ==
    /\ mon[c] = "wait"
    /\ ~muDead
    /\ LET isCompleted == conn[c].tok \in downloadCompleted
           isActive == conn[c].tok \in DOMAIN activeStreams
       IN mon' = [mon EXCEPT ![c] = IF isCompleted \/ ~isActive THEN "stopped"
                                    ELSE IF ProbeBroken(c) THEN "evict"
                                    ELSE "wait"]
    /\ UNCHANGED <<fileRegistry, activeStreams, downloadCompleted, serverStats, muDead,
                   conn, req, sweepList, regReq, regResp, statusResp, minter, shut>>

MonitorEvict(c) ==
    /\ mon[c] = "evict"
    /\ ~muDead
    /\ removeFileResources(conn[c].tok)
    /\ mon' = [mon EXCEPT ![c] = "stopped"]
    /\ UNCHANGED <<serverStats, muDead, req, sweepList, regReq, regResp, statusResp, minter, shut>>

\* ------------------------------------------------------------ cleanupResources

\* SweepTick collecting every token of the registry
SweepTickAll ==
    /\ sweepList = {}
    /\ ~muDead
    /\ sweepList' = DOMAIN fileRegistry
    /\ sweepList' # {}
    /\ UNCHANGED <<fileRegistry, activeStreams, downloadCompleted, serverStats, muDead,
                   conn, mon, req, regReq, regResp, statusResp, minter, shut>>

\* the tick: collect the expired tokens under the read lock
SweepTick ==
    /\ sweepList = {}
    /\ ~muDead
    /\ sweepList' = {t \in DOMAIN fileRegistry : fileRegistry[t].Expired}
    /\ sweepList' # {}
    /\ UNCHANGED <<fileRegistry, activeStreams, downloadCompleted, serverStats, muDead,
                   conn, mon, req, regReq, regResp, statusResp, minter, shut>>

SweepRemove(t) ==
    /\ t \in sweepList
    /\ ~muDead
    /\ removeFileResources(t)
    /\ sweepList' = sweepList \ {t}
    /\ UNCHANGED <<serverStats, muDead, mon, req, regReq, regResp, statusResp, minter, shut>>

\* ------------------------------------------------------------- gracefulShutdown

\* ShutdownEvent is closed (by whoever embeds the bridge: nothing in main.go
\* closes it); StartServer wakes, sets isShuttingDown and calls gracefulShutdown
SignalShutdown ==
    /\ shut = "running"
    /\ shut' = "signalled"
    /\ UNCHANGED <<fileRegistry, activeStreams, downloadCompleted, serverStats, muDead,
                   conn, mon, req, sweepList, regReq, regResp, statusResp, minter>>

\* gracefulShutdown takes the write lock and calls removeFileResources for
\* every token of activeStreams.  removeFileResources locks ffb.mu itself and
\* sync.RWMutex is not reentrant: with any stream installed the first call
\* blocks for ever, the lock still held.  With none the loop body never runs
\* and the lock is released; fileRegistry is not touched
ShutdownEvictPass ==
    /\ shut = "signalled"
    /\ ~muDead
    /\ IF DOMAIN activeStreams # {}
       THEN muDead' = TRUE /\ shut' = "hung"
       ELSE UNCHANGED muDead /\ shut' = "httpstop"
    /\ UNCHANGED <<fileRegistry, activeStreams, downloadCompleted, serverStats,
                   conn, mon, req, sweepList, regReq, regResp, statusResp, minter>>

\* httpServer.Shutdown returns (at the latest when its 5 s context ends),
\* listener.Close(), gracefulShutdown and StartServer return
ShutdownReturn ==
    /\ shut = "httpstop"
    /\ shut' = "returned"
    /\ UNCHANGED <<fileRegistry, activeStreams, downloadCompleted, serverStats, muDead,
                   conn, mon, req, sweepList, regReq, regResp, statusResp, minter>>

\* --------------------------------------------------------------- specifications

Filenames == {"", "a.txt", "b.txt"}
Sizes == {-1, 1, MaxFileSize + 1}
\* the sizes registered where providers stream: one byte, the whole payload
StreamSizes == {1, PayloadLen}
FailedLines == {"err", "bad", NoSuchToken}

\* connections and requests are taken in order (they are interchangeable);
\* with seq, one arrives only after the handlers of the earlier ones returned
FirstFree(c, C, seq) ==
    \A b \in C : b < c => IF seq THEN conn[b].pc \in {"end", "hung"}
                          ELSE conn[b].pc # "free"
FirstIdle(d, D, seq) ==
    \A e \in D : e < d => IF seq THEN req[e].pc \in {"done", "hung"}
                          ELSE req[e].pc # "idle"

\* at most limit successful registrations, each minting a token of T
RegisterIn(T, limit) ==
    /\ serverStats.FilesRegistered < limit
    /\ \E t \in T, sz \in StreamSizes : handleFileRegistration("json", "a.txt", sz, t)
\* register requests of every kind
RegisterAny(T, limit) ==
    \/ \E kind \in {"nil", "bad"}, t \in T : handleFileRegistration(kind, "", 0, t)
    \/ \E fn \in Filenames, sz \in Sizes, t \in T :
         /\ (fn # "" /\ sz <= MaxFileSize) => serverStats.FilesRegistered < limit
         /\ handleFileRegistration("json", fn, sz, t)
\* the providers of C write, and end their connection in one of the ways of modes
ProviderOf(C, modes) ==
    \E c \in C : ProviderWrite(c) \/ \E m \in modes : ProviderClose(c, m)
\* the connections of C, whose first line is one of lines
HandshakeOf(C, lines, seq) ==
    \E c \in C :
        \/ FirstFree(c, C, seq) /\ AcceptConnection(c)
        \/ \E line \in lines : ReadMetadata(c, line)
        \/ ValidateConnection(c)
        \/ SetStreaming(c)
        \/ InstallStream(c)
        \/ WriteReady(c)
        \/ ReturnConnection(c)
\* the requests of D for the tokens of toks; writes: whether a write to the
\* consumer can succeed (TRUE) and fail (FALSE)
DownloadOf(D, toks, seq, writes) ==
    \E d \in D :
        \/ FirstIdle(d, D, seq) /\ \E t \in toks : StartDownload(d, t)
        \/ PollStream(d)
        \/ \E w \in writes : SpliceData(d, w)
        \/ SpliceEOF(d)
        \/ SpliceTimeout(d)
        \/ SpliceError(d)
        \/ MarkCompleted(d)
        \/ CloseAfterTransfer(d)
        \/ ReturnDownload(d)
\* two requests of D read the same stream at once
DownloadRaceOf(D) ==
    \E d \in D :
        \/ \E e \in D, corrupt \in BOOLEAN : d < e /\ SpliceRace(d, e, corrupt)
        \/ SplicePanic(d)
\* status requests for the tokens of toks
StatusOf(toks) == \E t \in toks : handleStatusCheck(t)
MonitorOf(C) == \E c \in C : MonitorTick(c) \/ MonitorEvict(c)
Sweeper == (\E t \in Tokens : Expire(t) \/ SweepRemove(t)) \/ SweepTick

\* one provider connection, download requests one after the other, the
\* monitor and the sweeper
Next ==
    \/ RegisterIn({"t1"}, MaxRegs)
    \/ ProviderOf({1}, {"fin", "rst"})
    \/ HandshakeOf({1}, FailedLines \cup {"t1"}, TRUE)
    \/ DownloadOf({1, 2}, {"t1", NoSuchToken}, TRUE, BOOLEAN)
    \/ MonitorOf({1})
    \/ Sweeper
Spec == Init /\ [][Next]_vars

\* one provider connection, two concurrent download requests
NextRace ==
    \/ RegisterIn({"t1"}, MaxRegs)
    \/ ProviderOf({1}, {"fin", "rst"})
    \/ HandshakeOf({1}, FailedLines \cup {"t1"}, TRUE)
    \/ DownloadOf({1, 2}, {"t1"}, FALSE, BOOLEAN)
    \/ DownloadRaceOf({1, 2})
SpecRace == Init /\ [][NextRace]_vars

\* one provider connection, download requests one after the other, the
\* sweeper, no monitor
NextExpiry ==
    \/ RegisterIn({"t1"}, MaxRegs)
    \/ ProviderOf({1}, {"fin", "rst"})
    \/ HandshakeOf({1}, FailedLines \cup {"t1"}, TRUE)
    \/ DownloadOf({1, 2}, {"t1", NoSuchToken}, TRUE, BOOLEAN)
    \/ Sweeper
SpecExpiry == Init /\ [][NextExpiry]_vars

\* one registration, two concurrent provider connections, one download
NextAttach ==
    \/ RegisterIn({"t1"}, 1)
    \/ ProviderOf({1, 2}, {"fin", "rst"})
    \/ HandshakeOf({1, 2}, {"t1", NoSuchToken}, FALSE)
    \/ DownloadOf({1}, {"t1"}, TRUE, {TRUE})
SpecAttach == Init /\ [][NextAttach]_vars

\* register and status requests only
NextReg ==
    \/ RegisterAny(Tokens, MaxRegs)
    \/ StatusOf(Tokens \cup {NoSuchToken})
SpecReg == Init /\ [][NextReg]_vars

\* one provider connection, one download request and status requests
NextStatus ==
    \/ RegisterIn({"t1"}, MaxRegs)
    \/ ProviderOf({1}, {"fin", "rst"})
    \/ HandshakeOf({1}, {"t1"}, TRUE)
    \/ DownloadOf({1}, {"t1", NoSuchToken}, TRUE, BOOLEAN)
    \/ StatusOf({"t1", NoSuchToken})
SpecStatus == Init /\ [][NextStatus]_vars

\* a bridge started by main or constructed directly, minting tokens; the
\* random numbers of one token are all the same
NextToken ==
    \/ \E tokenLength \in ConfiguredLengths : main(tokenLength)
    \/ \E tokenLength \in ConfiguredLengths : NewFileFlowBridge(tokenLength)
    \/ \E h \in 1..16, v \in {"8", "9", "a", "b"} : createNewIDUUID(h, v)
    \/ createNewIDStart
    \/ \E num \in 0..61 :
         /\ IF minter.ret = <<>> THEN TRUE ELSE minter.ret[1] = charset[num + 1]
         /\ createNewIDChar(num)
    \/ createNewIDReturn
SpecToken == Init /\ [][NextToken]_vars

\* the shutdown sequence
Shutdown == SignalShutdown \/ ShutdownEvictPass \/ ShutdownReturn

\* one provider connection, one download request and the shutdown sequence;
\* once StartServer has returned the process ends and nothing runs any more;
\* the shutdown sequence is not starved
NextShutdown ==
    \/ shut # "returned" /\ RegisterIn({"t1"}, MaxRegs)
    \/ shut # "returned" /\ ProviderOf({1}, {"fin", "rst"})
    \/ shut # "returned" /\ HandshakeOf({1}, {"t1"}, TRUE)
    \/ shut # "returned" /\ DownloadOf({1}, {"t1"}, TRUE, BOOLEAN)
    \/ Shutdown
SpecShutdown == Init /\ [][NextShutdown]_vars /\ WF_vars(Shutdown)

\* as NextShutdown, with two provider connections that are accepted only
\* after the shutdown signal (the listener is still open then)
NextLateAccept ==
    \/ shut # "returned" /\ RegisterIn({"t1"}, MaxRegs)
    \/ shut \notin {"running", "returned"} /\ HandshakeOf({1, 2}, {"t1"}, TRUE)
    \/ Shutdown
SpecLateAccept == Init /\ [][NextLateAccept]_vars

\* two tokens, one provider connection, the sweeper and status requests
NextSweep ==
    \/ RegisterIn(Tokens, MaxRegs)
    \/ HandshakeOf({1}, Tokens, TRUE)
    \/ Sweeper
    \/ StatusOf(Tokens)
SpecSweep == Init /\ [][NextSweep]_vars

\* one token, one provider connection that may close its side, one download
\* request and the monitor
NextMonitor ==
    \/ RegisterIn({"t1"}, MaxRegs)
    \/ ProviderOf({1}, {"fin"})
    \/ HandshakeOf({1}, {"t1"}, TRUE)
    \/ DownloadOf({1}, {"t1"}, TRUE, {TRUE})
    \/ MonitorOf({1})
SpecMonitor == Init /\ [][NextMonitor]_vars

\* one token, one provider connection, one download request, the monitor
\* and the sweeper; time passes, the sweeper and the monitor tick, and no
\* handler is starved
NextFair ==
    \/ RegisterIn({"t1"}, MaxRegs)
    \/ ProviderOf({1}, {"fin", "rst"})
    \/ HandshakeOf({1}, {"t1"}, TRUE)
    \/ DownloadOf({1}, {"t1"}, TRUE, {TRUE})
    \/ MonitorOf({1})
    \/ Sweeper
SpecFair ==
    /\ Init /\ [][NextFair]_vars
    /\ WF_vars(Sweeper)
    /\ WF_vars(MonitorOf({1}))
    /\ WF_vars(HandshakeOf({1}, {"t1"}, TRUE))
    /\ WF_vars(DownloadOf({1}, {"t1"}, TRUE, {TRUE}))

\* one token, two provider connections one after the other (the first one
\* sends a payload), one download request, the passing of time and the sweeper
NextStale ==
    \/ RegisterIn({"t1"}, MaxRegs)
    \/ ProviderOf({1}, {"fin"})
    \/ HandshakeOf({1, 2}, {"t1"}, TRUE)
    \/ DownloadOf({1}, {"t1"}, TRUE, {TRUE})
    \/ Sweeper
SpecStale == Init /\ [][NextStale]_vars

\* as NextStale, with the two provider connections at the same time
NextStaleAttach ==
    \/ RegisterIn({"t1"}, MaxRegs)
    \/ ProviderOf({1}, {"fin"})
    \/ HandshakeOf({1, 2}, {"t1"}, FALSE)
    \/ DownloadOf({1}, {"t1"}, TRUE, {TRUE})
    \/ Sweeper
SpecStaleAttach == Init /\ [][NextStaleAttach]_vars

\* ----------------------------------------------------------------- properties

\* a download of t reached the splice stage, ended by EOF, a read error or a
\* write error, and its handler has returned
Retired(t) ==
    \E d \in Reqs : /\ req[d].pc = "done" /\ req[d].tok = t
                    /\ req[d].how \in {"eof", "readerr", "writeerr"}

\* C1: once a download of token T went through the splice stage and
\* terminated, every later GET /download/T is answered 404 and every later
\* provider handshake carrying T is answered INVALID_CONNECTION
C1_SingleUse ==
    [][ /\ \A d \in Reqs :
             (req[d].pc = "idle" /\ req'[d].pc # "idle" /\ Retired(req'[d].tok))
                 => req'[d].code = 404
        /\ \A c \in Conns :
             (conn[c].pc = "validate" /\ conn'[c].pc # "validate"
                  /\ Retired(conn[c].tok))
                 => conn'[c].reply = "INVALID_CONNECTION" ]_vars

\* C2: of the download requests that are given one provider stream, at most
\* one ever observes bytes of it
C2_OneReader ==
    \A d, e \in Reqs :
        (d # e /\ req[d].stream # NoConn /\ req[d].stream = req[e].stream)
            => (req[d].body = <<>> \/ req[e].body = <<>>)

\* C3: of the provider handshakes carrying one token, registered once, at most
\* one is answered STREAM_READY
C3_OneAttach ==
    \A b, c \in Conns :
        (b # c /\ conn[b].tok = conn[c].tok /\ conn[b].reply = "STREAM_READY")
            => conn[c].reply # "STREAM_READY"

\* C4: a splice that ended with EOF has delivered to the consumer exactly the
\* bytes the provider wrote after its handshake line, in order
C4_ByteIntegrity ==
    \A d \in Reqs :
        req[d].how = "eof" => req[d].body = Written(req[d].stream)

\* C5 (the download-completion case): when a download handler has returned,
\* and so removed the session, the provider connection it read from is closed
C5_StreamClosed ==
    \A d \in Reqs :
        (req[d].pc = "done" /\ req[d].stream # NoConn) => conn[req[d].stream].closed

\* C6: N successful registrations leave N distinct sessions in the registry
\* (no registration overwrites a live session)
C6_DistinctSessions ==
    Cardinality(DOMAIN fileRegistry) = serverStats.FilesRegistered

C8_PollTimeoutEvicts ==
    [][ /\ \A d \in Reqs :
             (req[d].pc = "poll" /\ req'[d] # req[d]
                  /\ req[d].tok \notin DOMAIN activeStreams) =>
                 IF req[d].i + 1 >= PollLimit
                 THEN req'[d].code = 503 /\ req'[d].pc = "ret"
                 ELSE req'[d].code = 0 /\ req'[d].pc = "poll"
        /\ \A d \in Reqs :
             (req[d].pc # "done" /\ req'[d].pc = "done" /\ req'[d].code = 503) =>
                 /\ req[d].tok \notin DOMAIN fileRegistry'
                 /\ req[d].tok \notin DOMAIN activeStreams'
                 /\ req[d].tok \notin downloadCompleted'
        /\ \A d \in Reqs :
             (req[d].pc = "idle" /\ req'[d].pc # "idle"
                  /\ req'[d].tok \notin DOMAIN fileRegistry)
                 => req'[d].code = 404 /\ req'[d].pc = "done"
        /\ \A c \in Conns :
             (conn[c].pc = "validate" /\ conn'[c].pc # "validate"
                  /\ conn[c].tok \notin DOMAIN fileRegistry)
                 => conn'[c].reply = "INVALID_CONNECTION" /\ conn'[c].closed ]_vars

\* a download of a token registered once has failed with 503, and a later
\* download and a later handshake for that token have been rejected
C8_Witness ==
    \E d, e \in Reqs, c \in Conns :
        /\ serverStats.FilesRegistered = 1
        /\ req[d].pc = "done" /\ req[d].code = 503 /\ req[d].tok \in Tokens
        /\ req[d].tok \notin DOMAIN fileRegistry
        /\ e # d /\ req[e].tok = req[d].tok /\ req[e].code = 404
        /\ conn[c].tok = req[d].tok /\ conn[c].reply = "INVALID_CONNECTION"
        /\ conn[c].closed

\* C9: a handshake that did not end in an attach has been answered
\* INVALID_CONNECTION and its connection is closed
C9_InvalidOnFailure ==
    \A c \in Conns :
        (conn[c].pc = "end" /\ ~conn[c].handover)
            => conn[c].reply = "INVALID_CONNECTION" /\ conn[c].closed

C11_RegisterStatusRoundTrip ==
    [][ LET t == statusResp'.token IN
        (/\ statusResp' # statusResp
         /\ regResp.code = 200 /\ regResp.token = t
         /\ \A c \in Conns : conn[c].tok # t
         /\ \A d \in Reqs : req[d].tok # t)
        => /\ statusResp'.code = 200
           /\ statusResp'.filename = regReq.Filename
           /\ statusResp'.size = regReq.Size
           /\ statusResp'.status = "registered" ]_vars

\* a status request has been answered with the registration it follows
C11_Witness ==
    /\ regResp.code = 200 /\ statusResp.code = 200
    /\ statusResp.token = regResp.token
    /\ statusResp.filename = regReq.Filename /\ statusResp.filename # ""
    /\ statusResp.size = regReq.Size /\ statusResp.size = PayloadLen
    /\ statusResp.status = "registered"
    /\ \A c \in Conns : conn[c].tok # statusResp.token

\* C12: a status request and a download request for a token that is not in
\* the registry are answered 404 and leave the registry, the streams, the
\* completion flags and the statistics as they were
C12_AbsentToken404 ==
    [][ /\ (statusResp' # statusResp /\ statusResp'.token \notin DOMAIN fileRegistry)
              => /\ statusResp'.code = 404
                 /\ UNCHANGED <<fileRegistry, activeStreams, downloadCompleted,
                                serverStats, conn>>
        /\ \A d \in Reqs :
             (req[d].pc = "idle" /\ req'[d].pc # "idle"
                  /\ req'[d].tok \notin DOMAIN fileRegistry)
              => /\ req'[d].code = 404 /\ req'[d].pc = "done"
                 /\ req'[d].body = <<>>
                 /\ UNCHANGED <<fileRegistry, activeStreams, downloadCompleted,
                                serverStats, conn>> ]_vars

\* both requests have been answered 404 for a token that was never registered,
\* with a session and a stream in place
C12_Witness ==
    /\ statusResp.code = 404 /\ statusResp.token = NoSuchToken
    /\ \E d \in Reqs : req[d].tok = NoSuchToken /\ req[d].code = 404
    /\ DOMAIN fileRegistry # {} /\ DOMAIN activeStreams # {}

\* C14: no status request is answered 200 for a token whose completion flag
\* is set
C14_CompletedStatus404 ==
    [][ (statusResp' # statusResp /\ statusResp'.token \in downloadCompleted)
            => statusResp'.code # 200 ]_vars

\* C20: no endpoint reports a session as registered or streaming once it
\* reports it completed: a status response that carries download_completed
\* does not carry status registered or streaming
C20_NoWayBack ==
    (statusResp.code = 200 /\ statusResp.download_completed)
        => statusResp.status \notin {"registered", "streaming"}

\* C13: the tick of the sweep collects exactly the sessions that have
\* expired; the removal of a collected token takes its session, its stream
\* (closing it) and its flag away and leaves the sessions under every other
\* token as they were; a status request for a token that is gone gets 404
C13_SweepExpired ==
    [][ /\ (sweepList = {} /\ sweepList' # {})
              => sweepList' = {t \in DOMAIN fileRegistry : fileRegistry[t].Expired}
        /\ \A t \in Tokens :
             (t \in sweepList /\ t \notin sweepList') =>
                 /\ t \notin DOMAIN fileRegistry'
                 /\ t \notin DOMAIN activeStreams'
                 /\ t \notin downloadCompleted'
                 /\ t \in DOMAIN activeStreams => conn'[activeStreams[t]].closed
                 /\ \A u \in DOMAIN fileRegistry \ {t} :
                        /\ u \in DOMAIN fileRegistry'
                        /\ fileRegistry'[u] = fileRegistry[u]
                 /\ \A u \in DOMAIN activeStreams \ {t} :
                        /\ u \in DOMAIN activeStreams'
                        /\ conn'[activeStreams[u]] = conn[activeStreams[u]]
        /\ (statusResp' # statusResp /\ statusResp'.token \notin DOMAIN fileRegistry)
              => statusResp'.code = 404 ]_vars

\* a sweep has run to its end: of two sessions the expired one, with its
\* attached stream, is gone and closed and its status is 404, the other stays
C13_Witness ==
    \E c \in Conns, u \in Tokens :
        /\ sweepList = {} /\ serverStats.FilesRegistered = 2
        /\ conn[c].handover /\ conn[c].closed
        /\ conn[c].tok \notin DOMAIN fileRegistry
        /\ conn[c].tok \notin DOMAIN activeStreams
        /\ statusResp.code = 404 /\ statusResp.token = conn[c].tok
        /\ u # conn[c].tok /\ u \in DOMAIN fileRegistry /\ ~fileRegistry[u].Expired

\* C15: no step lowers bytes_transferred
C15_BytesMonotonic ==
    [][serverStats'.BytesTransferred >= serverStats.BytesTransferred]_vars

\* a download has delivered the whole payload and returned, and the counter
\* holds its bytes
C15_Witness ==
    /\ serverStats.FilesTransferred = 1
    /\ serverStats.BytesTransferred = PayloadLen
    /\ \E d \in Reqs : /\ req[d].pc = "done" /\ req[d].how = "eof"
                        /\ Len(req[d].body) = PayloadLen

\* C16: peak_connections is at least active_connections in every state
C16_PeakAtLeastActive ==
    serverStats.PeakConnections >= serverStats.ActiveConnections

\* two handshake handlers have been running at once and one has returned
C16_Witness ==
    /\ serverStats.PeakConnections = 2
    /\ serverStats.ActiveConnections = 1
    /\ \E c \in Conns : conn[c].pc = "end"

\* the token is in none of the three maps
Absent(t) ==
    /\ t \notin DOMAIN fileRegistry
    /\ t \notin DOMAIN activeStreams
    /\ t \notin downloadCompleted

\* the step is a call of removeFileResources(t): by the sweep, by a monitor
\* or by a returning download handler
Evicting(t) ==
    \/ t \in sweepList /\ t \notin sweepList'
    \/ \E c \in Conns : mon[c] = "evict" /\ mon'[c] = "stopped" /\ conn[c].tok = t
    \/ \E d \in Reqs : req[d].pc = "ret" /\ req'[d].pc = "done" /\ req[d].tok = t

\* C17: removeFileResources leaves its token in none of the maps, and called
\* on a token that is in none of them it changes nothing; so a second
\* eviction of a token leaves the state of the first
C17_EvictIdempotent ==
    [][ \A t \in Tokens \cup {NoSuchToken} :
          Evicting(t) =>
              /\ Absent(t)'
              /\ Absent(t) => UNCHANGED <<fileRegistry, activeStreams,
                                          downloadCompleted, conn, serverStats>> ]_vars

\* a token registered once has been evicted twice: its attached stream was
\* closed by one eviction and the download that waited for it has returned
C17_Witness ==
    \E d \in Reqs, c \in Conns :
        /\ serverStats.FilesRegistered = 1 /\ serverStats.FilesTransferred = 0
        /\ req[d].pc = "done" /\ req[d].code = 503 /\ req[d].tok \in Tokens
        /\ conn[c].tok = req[d].tok /\ conn[c].handover /\ conn[c].closed
        /\ Absent(req[d].tok)

\* C19: a download handler that went through the splice adds its residual
\* count to bytes_transferred and sets the completion flag when the splice
\* ends, and when it returns the token is in none of the maps and the
\* provider connection it read from is closed
C19_TerminationEvicts ==
    [][ \A d \in Reqs :
          /\ (req[d].pc = "finish" /\ req'[d].pc # "finish") =>
                 /\ serverStats'.BytesTransferred =
                        serverStats.BytesTransferred + req[d].local
                 /\ req[d].tok \in downloadCompleted'
          /\ (req[d].pc = "ret" /\ req'[d].pc = "done"
                  /\ req[d].how \in {"eof", "readerr", "writeerr"}) =>
                 /\ Absent(req[d].tok)'
                 /\ conn'[req[d].stream].closed ]_vars

\* the characters [A-Za-z0-9]
Alnum ==
    { "A", "B", "C", "D", "E", "F", "G", "H", "I", "J", "K", "L", "M",
      "N", "O", "P", "Q", "R", "S", "T", "U", "V", "W", "X", "Y", "Z",
      "a", "b", "c", "d", "e", "f", "g", "h", "i", "j", "k", "l", "m",
      "n", "o", "p", "q", "r", "s", "t", "u", "v", "w", "x", "y", "z",
      "0", "1", "2", "3", "4", "5", "6", "7", "8", "9" }

\* exactly n characters of [A-Za-z0-9]
IsAlnumOfLength(t, n) ==
    /\ Len(t) = n
    /\ \A k \in 1..Len(t) : t[k] \in Alnum

\* 36 characters: hex digits with hyphens at the canonical places
IsHyphenatedUUID(t) ==
    /\ Len(t) = 36
    /\ \A k \in 1..Len(t) :
         IF k \in {9, 14, 19, 24} THEN t[k] = "-"
         ELSE t[k] \in {"0", "1", "2", "3", "4", "5", "6", "7", "8", "9",
                        "a", "b", "c", "d", "e", "f"}

InRange(n) == MinTokenLength <= n /\ n <= MaxTokenLength

\* C18: a token minted by a bridge configured with length L has L characters
\* of [A-Za-z0-9] when 6 <= L <= 32 and is a hyphenated UUID otherwise
C18_TokenFormat ==
    minter.pc = "returned" =>
        IF InRange(minter.cfg) THEN IsAlnumOfLength(minter.ret, minter.cfg)
        ELSE IsHyphenatedUUID(minter.ret)

\* C18 amended: with L of 6..32 the token has L characters of [A-Za-z0-9];
\* with L outside, a bridge started by main mints 8 such characters and a
\* bridge constructed directly with that L mints a hyphenated UUID
C18_TokenFormatByEntry ==
    minter.pc = "returned" =>
        IF InRange(minter.cfg) THEN IsAlnumOfLength(minter.ret, minter.cfg)
        ELSE IF minter.viaMain
        THEN IsAlnumOfLength(minter.ret, DefaultTokenLength)
        ELSE IsHyphenatedUUID(minter.ret)

\* a bridge started by main with a length above 32 has minted a token of 8
\* characters
C18_Witness ==
    /\ minter.pc = "returned" /\ minter.viaMain
    /\ minter.cfg > MaxTokenLength
    /\ Len(minter.ret) = DefaultTokenLength
    /\ minter.ret[DefaultTokenLength] = "9"

\* C21: in every state, a session whose status is "registered" has no entry
\* in the active streams and a session whose status is "streaming" has one
C21_StatusMatchesStream ==
    \A t \in DOMAIN fileRegistry :
        /\ fileRegistry[t].Status = "registered" => t \notin DOMAIN activeStreams
        /\ fileRegistry[t].Status = "streaming" => t \in DOMAIN activeStreams

\* C22: the step of a handshake that makes the session streaming (the step
\* STREAM_READY follows) is taken only in a state where the session exists,
\* is registered, is not expired and has no completion flag
C22_StreamingOnlyIfValid ==
    [][\A c \in Conns :
         (conn[c].pc = "setstatus" /\ conn'[c].pc = "install")
             => validateStreamConnection(conn[c].tok)]_vars

\* C23: while the read of a splice times out, no step changes the handler,
\* the stream of its session, the transfer counters or the completion flag,
\* and the loop is left only after EOF, a non-timeout read error or a consumer write error
C23_TimeoutKeepsSplice ==
    [][\A d \in Reqs :
         req[d].pc = "splice" =>
            /\ ReadOutcome(req[d].stream) = "timeout" =>
                  /\ req'[d] = req[d]
                  /\ serverStats'.BytesTransferred = serverStats.BytesTransferred
                  /\ serverStats'.FilesTransferred = serverStats.FilesTransferred
                  /\ req[d].tok \in downloadCompleted' => req[d].tok \in downloadCompleted
                  /\ req[d].tok \in DOMAIN activeStreams =>
                        /\ req[d].tok \in DOMAIN activeStreams'
                        /\ activeStreams'[req[d].tok] = activeStreams[req[d].tok]
            /\ req'[d].pc \notin {"splice", "hung"} =>
                  /\ req'[d].pc = "finish"
                  /\ req'[d].how \in {"eof", "readerr", "writeerr"}
                  /\ req'[d].how = "eof" => ReadOutcome(req[d].stream) = "eof"
                  /\ req'[d].how = "readerr" => ReadOutcome(req[d].stream) = "error"
                  /\ req'[d].how = "writeerr" =>
                        ReadOutcome(req[d].stream) \in {"buffered", "data"}]_vars

\* a splice that has delivered a byte waits on a provider that is connected
\* and silent (its read times out), the session and the stream still in place
C23_Witness ==
    \E d \in Reqs :
        /\ req[d].pc = "splice"
        /\ Len(req[d].body) = 1
        /\ ReadOutcome(req[d].stream) = "timeout"
        /\ req[d].tok \in DOMAIN fileRegistry
        /\ req[d].tok \in DOMAIN activeStreams /\ activeStreams[req[d].tok] = req[d].stream

\* C24: a monitor tick that finds its session active and not completed and
\* its peer dead goes on to evict; the eviction leaves the token in none of
\* the three maps, so that the next download of it is answered 404, and the
\* monitor's socket closed, and the monitor stops; a tick that finds the
\* session completed or without a stream stops the monitor and evicts nothing
C24_MonitorEvictsDeadPeer ==
    [][/\ \A c \in Conns :
            /\ (mon[c] = "wait" /\ mon'[c] # "wait") =>
                  IF conn[c].tok \in downloadCompleted
                        \/ conn[c].tok \notin DOMAIN activeStreams
                  THEN /\ mon'[c] = "stopped"
                       /\ UNCHANGED <<fileRegistry, activeStreams, downloadCompleted, conn>>
                  ELSE /\ ProbeBroken(c)
                       /\ mon'[c] = "evict"
            /\ mon[c] = "evict" =>
                  /\ mon'[c] \in {"evict", "stopped"}
                  /\ mon'[c] = "stopped" =>
                        /\ Absent(conn[c].tok)'
                        /\ conn'[c].closed
       /\ \A d \in Reqs :
            (req[d].pc = "idle" /\ req'[d].pc # "idle"
                /\ req'[d].tok \notin DOMAIN fileRegistry) => req'[d].code = 404]_vars

\* C25: once shutdown is signalled, gracefulShutdown and StartServer
\* eventually return, whatever streams are attached
C25_ShutdownCompletes == (shut = "signalled") ~> (shut = "returned")

\* C26: when shutdown has finished the registry is empty and every provider
\* stream that was attached is closed
C26_ShutdownEvictsAll ==
    shut = "returned" =>
        /\ DOMAIN fileRegistry = {}
        /\ DOMAIN activeStreams = {}
        /\ \A c \in Conns : conn[c].handover => conn[c].closed

\* C27: once the shutdown eviction pass is over no stream is installed,
\* whichever connection it would come from (under SpecLateAccept every
\* connection is one accepted after the shutdown signal)
C27_NoInstallAfterPass ==
    [][(shut = "httpstop" \/ shut = "returned") =>
          (\A t \in DOMAIN activeStreams' :
              t \in DOMAIN activeStreams /\ activeStreams'[t] = activeStreams[t])]_vars

\* C28: the shared state is read and written under the lock only: while a
\* goroutine holds the write lock (one blocked with it holds it for ever), no
\* step of another goroutine changes the registry, the active streams, the
\* completion flags or the statistics
C28_SharedStateUnderLock ==
    [][muDead => UNCHANGED <<fileRegistry, activeStreams, downloadCompleted,
                             serverStats>>]_vars

\* the bytes the handlers have written to their consumers, and the bytes
\* they have counted locally and not yet folded into bytes_transferred
RECURSIVE SumWritten(_)
SumWritten(D) ==
    IF D = {} THEN 0
    ELSE LET d == CHOOSE x \in D : TRUE
         IN Len(req[d].body) + SumWritten(D \ {d})

RECURSIVE SumLocal(_)
SumLocal(D) ==
    IF D = {} THEN 0
    ELSE LET d == CHOOSE x \in D : TRUE
         IN req[d].local + SumLocal(D \ {d})

\* C29: bytes_transferred grows by exactly what each handler has written to
\* its consumer: with the counts not yet folded it is always the number of
\* bytes written, and when no splice is under way it is that number itself
C29_BytesAccounted ==
    serverStats.BytesTransferred + SumLocal(Reqs) = SumWritten(Reqs)

\* C30: a provider connection is counted in active_connections for as long
\* as it is attached as a stream: the count is never below the number of
\* connections installed in the active streams
C30_AttachedIsCounted ==
    serverStats.ActiveConnections >=
        Cardinality({c \in Conns : \E t \in DOMAIN activeStreams : activeStreams[t] = c})

\* C31: every session of the registry has a declared size that is not
\* negative
C31_SizeNonNegative ==
    \A t \in DOMAIN fileRegistry : fileRegistry[t].Size >= 0

\* C32: the step of a validated handshake that takes the write lock to record
\* status "streaming" finds the session in the registry
C32_SessionPresentAtUpdate ==
    [][\A c \in Conns :
         (conn[c].pc = "setstatus" /\ conn'[c].pc # "setstatus")
             => conn[c].tok \in DOMAIN fileRegistry]_vars

\* C33: every token that has an entry in the active streams has an entry in
\* the registry
C33_StreamHasSession ==
    DOMAIN activeStreams \subseteq DOMAIN fileRegistry

\* C34: files_transferred never exceeds files_registered
C34_TransferredAtMostRegistered ==
    serverStats.FilesTransferred <= serverStats.FilesRegistered

\* the session of t is in the registry past its ExpiresAt
Stale(t) == t \in DOMAIN fileRegistry /\ fileRegistry[t].Expired

\* C35: a download request for a session that is past its expiry and still
\* in the registry is treated as for any session (it goes on to wait for the
\* stream unless the completion flag is set, and is given the stream that is
\* installed), while a handshake for that session is rejected
C35_StaleServedNotAttached ==
    [][/\ \A d \in Reqs :
            /\ (req[d].pc = "idle" /\ req'[d].pc # "idle" /\ Stale(req'[d].tok)) =>
                  IF req'[d].tok \in downloadCompleted
                  THEN req'[d].pc = "done" /\ req'[d].code = 404
                  ELSE req'[d].pc = "poll"
            /\ (req[d].pc = "poll" /\ req'[d] # req[d] /\ Stale(req[d].tok)
                  /\ req[d].tok \in DOMAIN activeStreams) =>
                  /\ req'[d].pc = "splice" /\ req'[d].code = 200
                  /\ req'[d].stream = activeStreams[req[d].tok]
       /\ \A c \in Conns :
            (conn[c].pc = "validate" /\ conn'[c].pc # "validate" /\ Stale(conn[c].tok)) =>
                  /\ conn'[c].pc = "ret" /\ conn'[c].closed
                  /\ conn'[c].reply = "INVALID_CONNECTION"
                  /\ UNCHANGED <<fileRegistry, activeStreams>>]_vars

\* the session is past its expiry and still registered; the download has
\* been given the stream attached before and has delivered its bytes, and a
\* second provider has been refused
C35_Witness ==
    /\ Stale("t1")
    /\ \E d \in Reqs :
         /\ req[d].pc = "splice" /\ req[d].tok = "t1" /\ req[d].code = 200
         /\ Len(req[d].body) = PayloadLen
    /\ \E c \in Conns :
         /\ conn[c].tok = "t1" /\ conn[c].reply = "INVALID_CONNECTION"
         /\ ~conn[c].handover

\* C36: the sweep removes a session past its expiry whatever its state, and
\* when a splice for the session is in flight the removal closes the provider
\* socket the splice reads from, so that its read fails
C36_SweepEvictsInFlight ==
    [][\A t \in Tokens :
         (t \in sweepList /\ t \notin sweepList') =>
             /\ Absent(t)'
             /\ \A d \in Reqs :
                  (req[d].pc = "splice" /\ req[d].tok = t) =>
                      conn'[req[d].stream].closed]_vars

\* C37: a monitor tick on a session that is attached and not completed and
\* whose provider has closed its side goes on to evict, whatever the provider
\* has sent; the eviction leaves the token in none of the maps, and a
\* download request for a token that is in none of them is answered 404 and
\* delivers nothing
C37_ClosedPeerEvicted ==
    [][/\ \A c \in Conns :
            /\ (mon[c] = "wait" /\ mon'[c] # "wait"
                  /\ conn[c].peer = "fin" /\ ~conn[c].closed
                  /\ conn[c].tok \in DOMAIN activeStreams
                  /\ conn[c].tok \notin downloadCompleted) => mon'[c] = "evict"
            /\ (mon[c] = "evict" /\ mon'[c] # "evict") =>
                  /\ mon'[c] = "stopped"
                  /\ Absent(conn[c].tok)'
       /\ \A d \in Reqs :
            (req[d].pc = "idle" /\ req'[d].pc # "idle" /\ Absent(req'[d].tok)) =>
                /\ req'[d].pc = "done" /\ req'[d].code = 404
                /\ req'[d].body = <<>>
                /\ UNCHANGED conn]_vars

\* the provider attached, sent its payload and closed; the monitor has
\* evicted the session; the one download request was answered 404 and the
\* payload, still unread, was delivered to nobody
C37_Witness ==
    /\ conn[1].handover /\ conn[1].reply = "STREAM_READY"
    /\ conn[1].peer = "fin" /\ conn[1].sent = PayloadLen /\ conn[1].rd = 0
    /\ conn[1].closed
    /\ mon[1] = "stopped"
    /\ Absent("t1")
    /\ req[1].pc = "done" /\ req[1].tok = "t1" /\ req[1].code = 404
    /\ req[1].body = <<>>
    /\ serverStats.FilesRegistered = 1

\* C38: with a fair sweeper every session of the registry eventually leaves
\* it and every provider stream that was attached is eventually closed
C38_NothingPersists ==
    /\ \A t \in Tokens : (t \in DOMAIN fileRegistry) ~> (t \notin DOMAIN fileRegistry)
    /\ \A c \in Conns : conn[c].handover ~> conn[c].closed

\* C39: STREAM_READY is written only by a handshake that has marked the
\* session streaming and installed its connection, and a download whose
\* first poll comes after STREAM_READY, the session still being the
\* streaming one, finds the stream at that first poll
C39_ReadyMeansPollFinds ==
    [][/\ \A c \in Conns :
            /\ (conn[c].reply # "STREAM_READY" /\ conn'[c].reply = "STREAM_READY")
                  => conn[c].pc = "ready"
            /\ (conn[c].pc # "ready" /\ conn'[c].pc = "ready") =>
                  /\ conn[c].pc = "install"
                  /\ conn[c].tok \in DOMAIN activeStreams'
                  /\ activeStreams'[conn[c].tok] = c
            /\ (conn[c].pc # "install" /\ conn'[c].pc = "install") =>
                  /\ conn[c].tok \in DOMAIN fileRegistry'
                  /\ fileRegistry'[conn[c].tok].Status = "streaming"
       /\ \A d \in Reqs :
            (/\ req[d].pc = "poll" /\ req[d].i = 0 /\ req'[d] # req[d]
             /\ req[d].tok \in DOMAIN fileRegistry
             /\ fileRegistry[req[d].tok].Status = "streaming"
             /\ \E c \in Conns : conn[c].tok = req[d].tok /\ conn[c].reply = "STREAM_READY")
                => req'[d].pc = "splice"]_vars

\* C40: whenever no download handler is in flight the completion flags are
\* empty
C40_NoFlagWithoutHandler ==
    (\A d \in Reqs : req[d].pc \in {"idle", "done"}) => downloadCompleted = {}

\* two handlers have finished a splice for the same token, both have set the
\* flag and returned, and no flag is left
C40_Witness ==
    /\ \A d \in Reqs : req[d].pc = "done" /\ req[d].tok = "t1" /\ req[d].code = 200
                       /\ req[d].how = "eof"
    /\ serverStats.FilesTransferred = 2
    /\ downloadCompleted = {}

=============================================================================
